---- MODULE Spec2Model ----
(***************************************************************************)
(* Model of coach_peter.models.plan_model.PlanModel (the Plan Manager) and *)
(* of the part of coach_peter.models.goal_model.Goals (the Catalog) that   *)
(* it consumes.  One PlanModel instance is driven sequentially; the        *)
(* Catalog creates and deletes goals between the calls.  PlanModel reads   *)
(* no column of a row but its id, so Spec leaves the other columns as they *)
(* were created.                                                           *)
(*                                                                         *)
(* Every error of PlanModel is a Python ValueError; the kinds of the       *)
(* specification are told apart by the message:                            *)
(*   "Invalid goal id: ..."                -> InvalidIdError               *)
(*   "... not found in plan"               -> NotInPlanError               *)
(*   "... already exists in the plan"      -> DuplicateEntryError          *)
(*   "... not found in database"           -> NotFoundError                *)
(*   "Plan is empty"                       -> EmptyPlanError               *)
(* TypeError and SQLAlchemyError are the exceptions PlanModel lets pass.   *)
(***************************************************************************)
EXTENDS Integers, Sequences, FiniteSets, TLC

\* Largest goal id the Catalog hands out in the model.
MaxGoalId == 2

GoalIds == 1..MaxGoalId

\* Goals row as PlanModel sees it: the primary key and its mutable content.
Goal(i, c) == [id |-> i, completed |-> c]

----------------------------------------------------------------------------
(* Arguments in the representations a caller can pass as goal_id.          *)
(* kind "int": the integer n; kind "float": the float n/2; kind "str":     *)
(* the string whose characters are s; kind "none": None.                   *)

IntArg(i) == [kind |-> "int", n |-> i, s |-> <<>>]
FloatArg(h) == [kind |-> "float", n |-> h, s |-> <<>>]
StrArg(t) == [kind |-> "str", n |-> 0, s |-> t]
NoneArg == [kind |-> "none", n |-> 0, s |-> <<>>]

StrTexts == { <<" ", "1">>, <<"-", "1">>, <<"a", "b", "c">> }

Args ==
    {IntArg(i) : i \in (0 - 1)..MaxGoalId}
        \cup {StrArg(t) : t \in StrTexts}
        \cup {FloatArg(3)}
        \cup {NoneArg}

Digits == {"0", "1", "2", "3", "4", "5", "6", "7", "8", "9"}

DigitVal(c) ==
    CASE c = "0" -> 0 [] c = "1" -> 1 [] c = "2" -> 2 [] c = "3" -> 3
      [] c = "4" -> 4 [] c = "5" -> 5 [] c = "6" -> 6 [] c = "7" -> 7
      [] c = "8" -> 8 [] c = "9" -> 9

RECURSIVE StripLeft(_)
StripLeft(t) ==
    IF t # <<>> /\ Head(t) = " " THEN StripLeft(Tail(t)) ELSE t

RECURSIVE StripRight(_)
StripRight(t) ==
    IF t # <<>> /\ t[Len(t)] = " "
    THEN StripRight(SubSeq(t, 1, Len(t) - 1))
    ELSE t

RECURSIVE DigitsValue(_)
DigitsValue(t) ==
    IF t = <<>> THEN 0
    ELSE 10 * DigitsValue(SubSeq(t, 1, Len(t) - 1)) + DigitVal(t[Len(t)])

IsDigits(t) == t # <<>> /\ \A k \in 1..Len(t) : t[k] \in Digits

\* A conversion that takes a string only when it is decimal digits and
\* nothing else: no blanks around it and no sign.
PyIntDigitsOnly(x) ==
    CASE x.kind = "int" -> [exc |-> "none", v |-> x.n]
      [] x.kind = "float" ->
            [exc |-> "none",
             v |-> IF x.n >= 0 THEN x.n \div 2 ELSE 0 - ((0 - x.n) \div 2)]
      [] x.kind = "str" ->
            IF IsDigits(x.s)
            THEN [exc |-> "none", v |-> DigitsValue(x.s)]
            ELSE [exc |-> "ValueError", v |-> 0]
      [] x.kind = "none" -> [exc |-> "TypeError", v |-> 0]

\* int(goal_id): [exc, v].  A string is stripped, may carry one sign and
\* must then be decimal digits; a float is truncated toward zero; None is
\* a TypeError.
PyInt(x) ==
    CASE x.kind = "int" -> [exc |-> "none", v |-> x.n]
      [] x.kind = "float" ->
            [exc |-> "none",
             v |-> IF x.n >= 0 THEN x.n \div 2 ELSE 0 - ((0 - x.n) \div 2)]
      [] x.kind = "str" ->
            LET t == StripRight(StripLeft(x.s))
                signed == t # <<>> /\ Head(t) \in {"-", "+"}
                body == IF signed THEN Tail(t) ELSE t
            IN  IF IsDigits(body)
                THEN [exc |-> "none",
                      v |-> IF signed /\ Head(t) = "-"
                            THEN 0 - DigitsValue(body)
                            ELSE DigitsValue(body)]
                ELSE [exc |-> "ValueError", v |-> 0]
      [] x.kind = "none" -> [exc |-> "TypeError", v |-> 0]

----------------------------------------------------------------------------
VARIABLES
    plan,        \* self.plan: the list of goal ids
    goal_cache,  \* self._goal_cache: id -> Goals object
    catalog,     \* the Goals table: id -> row, for the ids that exist
    call,        \* the most recent step: operation, argument and outcome
    pre_plan,    \* self.plan when that step began
    pre_cache,   \* self._goal_cache when that step began
    other,       \* plan and cache of a second PlanModel object
    threads,     \* the calls in progress, one per thread, and their locals
    overlapped   \* two calls have been in progress at the same time

vars ==
    <<plan, goal_cache, catalog, call, pre_plan, pre_cache, other, threads,
      overlapped>>

InPlan(p, i) == \E k \in 1..Len(p) : p[k] = i

----------------------------------------------------------------------------
(* The Catalog.                                                            *)

\* get_goal_by_id without the "if not goal" test: a lookup of a missing key
\* hands back an object instead of raising.
get_goal_by_id_unchecked(cat, db_ok, goal_id) ==
    IF ~db_ok THEN [exc |-> "SQLAlchemyError", goal |-> Goal(0, FALSE)]
    ELSE IF goal_id \in DOMAIN cat
         THEN [exc |-> "none", goal |-> cat[goal_id]]
         ELSE [exc |-> "none", goal |-> Goal(goal_id, FALSE)]

\* Goals.get_goal_by_id: the row, ValueError when there is none,
\* SQLAlchemyError when the database fails (db_ok = FALSE).
get_goal_by_id(cat, db_ok, goal_id) ==
    IF ~db_ok THEN [exc |-> "SQLAlchemyError", goal |-> Goal(0, FALSE)]
    ELSE IF goal_id \in DOMAIN cat
         THEN [exc |-> "none", goal |-> cat[goal_id]]
         ELSE [exc |-> "ValueError", goal |-> Goal(0, FALSE)]

\* delete_goal without the "if not goal" test: deleting a missing row
\* passes silently.
delete_goal_silent(cat, db_ok, goal_id) ==
    IF ~db_ok THEN [exc |-> "SQLAlchemyError", cat |-> cat]
    ELSE [exc |-> "none", cat |-> [k \in DOMAIN cat \ {goal_id} |-> cat[k]]]

\* Goals.delete_goal: the row goes; ValueError when there is none,
\* SQLAlchemyError (after a rollback) when the database fails.
delete_goal(cat, db_ok, goal_id) ==
    IF ~db_ok THEN [exc |-> "SQLAlchemyError", cat |-> cat]
    ELSE IF goal_id \in DOMAIN cat
         THEN [exc |-> "none",
               cat |-> [k \in DOMAIN cat \ {goal_id} |-> cat[k]]]
         ELSE [exc |-> "ValueError", cat |-> cat]

----------------------------------------------------------------------------
(* PlanModel.  Each operator computes the outcome of one method from the   *)
(* state it starts in: exc is the error ("none" on success), plan and      *)
(* cache the fields afterwards, queries the number of Catalog lookups.     *)

\* _get_goal_from_cache_or_db that never looks into the cache.
get_goal_always_from_db(cache, cat, db_ok, goal_id) ==
    LET r == get_goal_by_id(cat, db_ok, goal_id)
    IN  IF r.exc = "ValueError"
        THEN [exc |-> "NotFoundError", goal |-> r.goal, cache |-> cache,
              queries |-> 1]
        ELSE IF r.exc # "none"
        THEN [exc |-> r.exc, goal |-> r.goal, cache |-> cache, queries |-> 1]
        ELSE [exc |-> "none", goal |-> r.goal,
              cache |-> [k \in DOMAIN cache \cup {goal_id} |->
                            IF k = goal_id THEN r.goal ELSE cache[k]],
              queries |-> 1]

\* _get_goal_from_cache_or_db that forgets to store what it loaded.
get_goal_without_store(cache, cat, db_ok, goal_id) ==
    IF goal_id \in DOMAIN cache
    THEN [exc |-> "none", goal |-> cache[goal_id], cache |-> cache,
          queries |-> 0]
    ELSE LET r == get_goal_by_id(cat, db_ok, goal_id)
         IN  IF r.exc = "ValueError"
             THEN [exc |-> "NotFoundError", goal |-> r.goal, cache |-> cache,
                   queries |-> 1]
             ELSE [exc |-> r.exc, goal |-> r.goal, cache |-> cache,
                   queries |-> 1]

\* _get_goal_from_cache_or_db that asks the Catalog again on a cache hit
\* and still returns the cached goal.
get_goal_requery_when_cached(cache, cat, db_ok, goal_id) ==
    IF goal_id \in DOMAIN cache
    THEN [exc |-> "none", goal |-> cache[goal_id], cache |-> cache,
          queries |-> 1]
    ELSE get_goal_always_from_db(cache, cat, db_ok, goal_id)

\* _get_goal_from_cache_or_db that stores a blank goal of the id instead of
\* the goal it loaded.
get_goal_storing_blank(cache, cat, db_ok, goal_id) ==
    IF goal_id \in DOMAIN cache
    THEN [exc |-> "none", goal |-> cache[goal_id], cache |-> cache,
          queries |-> 0]
    ELSE LET r == get_goal_by_id(cat, db_ok, goal_id)
         IN  IF r.exc = "ValueError"
             THEN [exc |-> "NotFoundError", goal |-> r.goal, cache |-> cache,
                   queries |-> 1]
             ELSE IF r.exc # "none"
             THEN [exc |-> r.exc, goal |-> r.goal, cache |-> cache,
                   queries |-> 1]
             ELSE [exc |-> "none", goal |-> r.goal,
                   cache |-> [k \in DOMAIN cache \cup {goal_id} |->
                                 IF k = goal_id THEN Goal(goal_id, FALSE)
                                 ELSE cache[k]],
                   queries |-> 1]

\* _get_goal_from_cache_or_db that remembers an id the Catalog does not
\* have (negative caching).
get_goal_negative_caching(cache, cat, db_ok, goal_id) ==
    IF goal_id \in DOMAIN cache
    THEN [exc |-> "none", goal |-> cache[goal_id], cache |-> cache,
          queries |-> 0]
    ELSE LET r == get_goal_by_id(cat, db_ok, goal_id)
         IN  IF r.exc = "ValueError"
             THEN [exc |-> "NotFoundError", goal |-> r.goal,
                   cache |-> [k \in DOMAIN cache \cup {goal_id} |->
                                 IF k = goal_id THEN r.goal ELSE cache[k]],
                   queries |-> 1]
             ELSE get_goal_always_from_db(cache, cat, db_ok, goal_id)

\* PlanModel._get_goal_from_cache_or_db
get_goal_from_cache_or_db(cache, cat, db_ok, goal_id) ==
    IF goal_id \in DOMAIN cache
    THEN [exc |-> "none", goal |-> cache[goal_id], cache |-> cache,
          queries |-> 0]
    ELSE LET r == get_goal_by_id(cat, db_ok, goal_id)
         IN  IF r.exc = "ValueError"
             THEN [exc |-> "NotFoundError", goal |-> r.goal, cache |-> cache,
                   queries |-> 1]
             ELSE IF r.exc # "none"
             THEN [exc |-> r.exc, goal |-> r.goal, cache |-> cache,
                   queries |-> 1]
             ELSE [exc |-> "none", goal |-> r.goal,
                   cache |-> [k \in DOMAIN cache \cup {goal_id} |->
                                 IF k = goal_id THEN r.goal ELSE cache[k]],
                   queries |-> 1]

\* check_if_empty that never raises.
check_if_empty_never(p) == "none"

\* check_if_empty that also raises for a plan of one id.
check_if_empty_below_two(p) ==
    IF Len(p) <= 1 THEN "EmptyPlanError" ELSE "none"

\* PlanModel.check_if_empty
check_if_empty(p) == IF Len(p) = 0 THEN "EmptyPlanError" ELSE "none"

\* validate_goal_id that resolves the id before it looks into the plan.
validate_int_db_first(p, cache, cat, db_ok, c, check_in_plan) ==
    IF c.exc = "TypeError"
    THEN [exc |-> "TypeError", id |-> 0, cache |-> cache, queries |-> 0]
    ELSE IF c.exc = "ValueError" \/ c.v < 0
    THEN [exc |-> "InvalidIdError", id |-> 0, cache |-> cache, queries |-> 0]
    ELSE LET r == get_goal_from_cache_or_db(cache, cat, db_ok, c.v)
         IN  IF r.exc # "none"
             THEN [exc |-> "NotFoundError", id |-> 0, cache |-> r.cache,
                   queries |-> r.queries]
             ELSE IF check_in_plan /\ ~InPlan(p, c.v)
             THEN [exc |-> "NotInPlanError", id |-> 0, cache |-> r.cache,
                   queries |-> r.queries]
             ELSE [exc |-> "none", id |-> c.v, cache |-> r.cache,
                   queries |-> r.queries]

\* validate_goal_id that resolves the id only when it checks the plan.
validate_int_resolve_if_checked(p, cache, cat, db_ok, c, check_in_plan) ==
    IF c.exc = "TypeError"
    THEN [exc |-> "TypeError", id |-> 0, cache |-> cache, queries |-> 0]
    ELSE IF c.exc = "ValueError" \/ c.v < 0
    THEN [exc |-> "InvalidIdError", id |-> 0, cache |-> cache, queries |-> 0]
    ELSE IF ~check_in_plan
    THEN [exc |-> "none", id |-> c.v, cache |-> cache, queries |-> 0]
    ELSE IF ~InPlan(p, c.v)
    THEN [exc |-> "NotInPlanError", id |-> 0, cache |-> cache, queries |-> 0]
    ELSE LET r == get_goal_from_cache_or_db(cache, cat, db_ok, c.v)
         IN  IF r.exc # "none"
             THEN [exc |-> "NotFoundError", id |-> 0, cache |-> r.cache,
                   queries |-> r.queries]
             ELSE [exc |-> "none", id |-> c.v, cache |-> r.cache,
                   queries |-> r.queries]

\* validate_goal_id that looks into the plan whatever check_in_plan says.
validate_int_always_in_plan(p, cache, cat, db_ok, c, check_in_plan) ==
    IF c.exc = "TypeError"
    THEN [exc |-> "TypeError", id |-> 0, cache |-> cache, queries |-> 0]
    ELSE IF c.exc = "ValueError" \/ c.v < 0
    THEN [exc |-> "InvalidIdError", id |-> 0, cache |-> cache, queries |-> 0]
    ELSE IF ~InPlan(p, c.v)
    THEN [exc |-> "NotInPlanError", id |-> 0, cache |-> cache, queries |-> 0]
    ELSE LET r == get_goal_from_cache_or_db(cache, cat, db_ok, c.v)
         IN  IF r.exc # "none"
             THEN [exc |-> "NotFoundError", id |-> 0, cache |-> r.cache,
                   queries |-> r.queries]
             ELSE [exc |-> "none", id |-> c.v, cache |-> r.cache,
                   queries |-> r.queries]

\* PlanModel.validate_goal_id after the conversion: c is the outcome of
\* int(goal_id).
validate_int(p, cache, cat, db_ok, c, check_in_plan) ==
    IF c.exc = "TypeError"
    THEN [exc |-> "TypeError", id |-> 0, cache |-> cache, queries |-> 0]
    ELSE IF c.exc = "ValueError" \/ c.v < 0
    THEN [exc |-> "InvalidIdError", id |-> 0, cache |-> cache, queries |-> 0]
    ELSE IF check_in_plan /\ ~InPlan(p, c.v)
    THEN [exc |-> "NotInPlanError", id |-> 0, cache |-> cache, queries |-> 0]
    ELSE LET r == get_goal_from_cache_or_db(cache, cat, db_ok, c.v)
         IN  IF r.exc # "none"
             THEN [exc |-> "NotFoundError", id |-> 0, cache |-> r.cache,
                   queries |-> r.queries]
             ELSE [exc |-> "none", id |-> c.v, cache |-> r.cache,
                   queries |-> r.queries]

\* PlanModel.validate_goal_id
validate_goal_id(p, cache, cat, db_ok, x, check_in_plan) ==
    validate_int(p, cache, cat, db_ok, PyInt(x), check_in_plan)

\* add_goal_to_plan without the test for an id already in the plan.
add_goal_to_plan_unchecked(p, cache, cat, db_ok, x) ==
    LET v == validate_goal_id(p, cache, cat, db_ok, x, FALSE)
    IN  IF v.exc # "none"
        THEN [exc |-> v.exc, plan |-> p, cache |-> v.cache,
              queries |-> v.queries]
        ELSE LET r == get_goal_from_cache_or_db(v.cache, cat, db_ok, v.id)
             IN  IF r.exc # "none"
                 THEN [exc |-> r.exc, plan |-> p, cache |-> r.cache,
                       queries |-> v.queries + r.queries]
                 ELSE [exc |-> "none", plan |-> Append(p, r.goal.id),
                       cache |-> r.cache,
                       queries |-> v.queries + r.queries]

\* add_goal_to_plan that puts the id at the front of the plan.
add_goal_to_plan_front(p, cache, cat, db_ok, x) ==
    LET v == validate_goal_id(p, cache, cat, db_ok, x, FALSE)
    IN  IF v.exc # "none"
        THEN [exc |-> v.exc, plan |-> p, cache |-> v.cache,
              queries |-> v.queries]
        ELSE IF InPlan(p, v.id)
        THEN [exc |-> "DuplicateEntryError", plan |-> p, cache |-> v.cache,
              queries |-> v.queries]
        ELSE LET r == get_goal_from_cache_or_db(v.cache, cat, db_ok, v.id)
             IN  IF r.exc # "none"
                 THEN [exc |-> r.exc, plan |-> p, cache |-> r.cache,
                       queries |-> v.queries + r.queries]
                 ELSE [exc |-> "none", plan |-> <<r.goal.id>> \o p,
                       cache |-> r.cache,
                       queries |-> v.queries + r.queries]

\* PlanModel.add_goal_to_plan
add_goal_to_plan(p, cache, cat, db_ok, x) ==
    LET v == validate_goal_id(p, cache, cat, db_ok, x, FALSE)
    IN  IF v.exc # "none"
        THEN [exc |-> v.exc, plan |-> p, cache |-> v.cache,
              queries |-> v.queries]
        ELSE IF InPlan(p, v.id)
        THEN [exc |-> "DuplicateEntryError", plan |-> p, cache |-> v.cache,
              queries |-> v.queries]
        ELSE LET r == get_goal_from_cache_or_db(v.cache, cat, db_ok, v.id)
             IN  IF r.exc # "none"
                 THEN [exc |-> r.exc, plan |-> p, cache |-> r.cache,
                       queries |-> v.queries + r.queries]
                 ELSE [exc |-> "none", plan |-> Append(p, r.goal.id),
                       cache |-> r.cache,
                       queries |-> v.queries + r.queries]

\* list.pop() in the place of list.remove(value): drops the last element.
ListPop(p, i) == IF p = <<>> THEN <<>> ELSE SubSeq(p, 1, Len(p) - 1)

\* list.remove(value): drops the first element equal to value.
RECURSIVE ListRemove(_, _)
ListRemove(p, i) ==
    IF p = <<>> THEN <<>>
    ELSE IF Head(p) = i THEN Tail(p)
    ELSE <<Head(p)>> \o ListRemove(Tail(p), i)

\* PlanModel.remove_goal_by_goal_id
remove_goal_by_goal_id(p, cache, cat, db_ok, x) ==
    IF check_if_empty(p) # "none"
    THEN [exc |-> "EmptyPlanError", plan |-> p, cache |-> cache,
          queries |-> 0]
    ELSE LET v == validate_goal_id(p, cache, cat, db_ok, x, TRUE)
         IN  IF v.exc # "none"
             THEN [exc |-> v.exc, plan |-> p, cache |-> v.cache,
                   queries |-> v.queries]
             ELSE IF ~InPlan(p, v.id)
             THEN [exc |-> "NotInPlanError", plan |-> p, cache |-> v.cache,
                   queries |-> v.queries]
             ELSE [exc |-> "none", plan |-> ListRemove(p, v.id),
                   cache |-> v.cache, queries |-> v.queries]

\* clear_plan that lets the ValueError of check_if_empty pass.
clear_plan_strict(p) ==
    IF check_if_empty(p) # "none"
    THEN [exc |-> "EmptyPlanError", plan |-> p]
    ELSE [exc |-> "none", plan |-> <<>>]

\* PlanModel.clear_plan: the ValueError of check_if_empty is caught.
clear_plan(p) == [exc |-> "none", plan |-> <<>>]

\* The list comprehension of get_all_goals building its list from the
\* back: each resolved goal is put in front of the earlier ones.
RECURSIVE ResolveAllPrepending(_, _, _, _, _, _)
ResolveAllPrepending(rest, cache, cat, db_ok, acc, n) ==
    IF rest = <<>>
    THEN [exc |-> "none", goals |-> acc, cache |-> cache, queries |-> n]
    ELSE LET r == get_goal_from_cache_or_db(cache, cat, db_ok, Head(rest))
         IN  IF r.exc # "none"
             THEN [exc |-> r.exc, goals |-> <<>>, cache |-> r.cache,
                   queries |-> n + r.queries]
             ELSE ResolveAllPrepending(Tail(rest), r.cache, cat, db_ok,
                                       <<r.goal>> \o acc, n + r.queries)

\* The list comprehension of get_all_goals over the ids rest, with the
\* goals resolved so far; the first failing resolution ends it.
RECURSIVE ResolveAll(_, _, _, _, _, _)
ResolveAll(rest, cache, cat, db_ok, acc, n) ==
    IF rest = <<>>
    THEN [exc |-> "none", goals |-> acc, cache |-> cache, queries |-> n]
    ELSE LET r == get_goal_from_cache_or_db(cache, cat, db_ok, Head(rest))
         IN  IF r.exc # "none"
             THEN [exc |-> r.exc, goals |-> <<>>, cache |-> r.cache,
                   queries |-> n + r.queries]
             ELSE ResolveAll(Tail(rest), r.cache, cat, db_ok,
                             Append(acc, r.goal), n + r.queries)

\* PlanModel.get_all_goals
get_all_goals(p, cache, cat, db_ok) ==
    IF check_if_empty(p) # "none"
    THEN [exc |-> "EmptyPlanError", goals |-> <<>>, cache |-> cache,
          queries |-> 0]
    ELSE ResolveAll(p, cache, cat, db_ok, <<>>, 0)

\* get_goal_by_goal_id that validates the id before it tests for an empty
\* plan.
get_goal_by_goal_id_validate_first(p, cache, cat, db_ok, x) ==
    LET v == validate_goal_id(p, cache, cat, db_ok, x, TRUE)
    IN  IF v.exc # "none"
        THEN [exc |-> v.exc, goals |-> <<>>, cache |-> v.cache,
              queries |-> v.queries]
        ELSE IF check_if_empty(p) # "none"
        THEN [exc |-> "EmptyPlanError", goals |-> <<>>, cache |-> cache,
              queries |-> 0]
        ELSE LET r == get_goal_from_cache_or_db(v.cache, cat, db_ok, v.id)
             IN  IF r.exc # "none"
                 THEN [exc |-> r.exc, goals |-> <<>>, cache |-> r.cache,
                       queries |-> v.queries + r.queries]
                 ELSE [exc |-> "none", goals |-> <<r.goal>>,
                       cache |-> r.cache,
                       queries |-> v.queries + r.queries]

\* PlanModel.get_goal_by_goal_id
get_goal_by_goal_id(p, cache, cat, db_ok, x) ==
    IF check_if_empty(p) # "none"
    THEN [exc |-> "EmptyPlanError", goals |-> <<>>, cache |-> cache,
          queries |-> 0]
    ELSE LET v == validate_goal_id(p, cache, cat, db_ok, x, TRUE)
         IN  IF v.exc # "none"
             THEN [exc |-> v.exc, goals |-> <<>>, cache |-> v.cache,
                   queries |-> v.queries]
             ELSE LET r == get_goal_from_cache_or_db(v.cache, cat, db_ok,
                                                     v.id)
                  IN  IF r.exc # "none"
                      THEN [exc |-> r.exc, goals |-> <<>>,
                            cache |-> r.cache,
                            queries |-> v.queries + r.queries]
                      ELSE [exc |-> "none", goals |-> <<r.goal>>,
                            cache |-> r.cache,
                            queries |-> v.queries + r.queries]

\* get_plan_length that answers the index of the last element.
get_plan_length_last_index(p) == IF p = <<>> THEN 0 ELSE Len(p) - 1

\* PlanModel.get_plan_length
get_plan_length(p) == Len(p)

\* round(n / d, 3) in thousandths, for n >= 0 and d > 0: the nearest
\* thousandth, a tie going to the even one.
Round3(n, d) ==
    LET q == (1000 * n) \div d
        r == (1000 * n) % d
    IN  IF 2 * r > d THEN q + 1
        ELSE IF 2 * r = d /\ q % 2 = 1 THEN q + 1
        ELSE q

\* The number of goals of the list gs that are completed.
RECURSIVE CompletedCount(_)
CompletedCount(gs) ==
    IF gs = <<>> THEN 0
    ELSE (IF Head(gs).completed THEN 1 ELSE 0) + CompletedCount(Tail(gs))

\* get_plan_progress that returns a percentage.
get_plan_progress_percent(p, cache, cat, db_ok) ==
    IF check_if_empty(p) # "none"
    THEN [exc |-> "EmptyPlanError", value |-> 0, cache |-> cache,
          queries |-> 0]
    ELSE LET r == ResolveAll(p, cache, cat, db_ok, <<>>, 0)
         IN  IF r.exc # "none"
             THEN [exc |-> r.exc, value |-> 0, cache |-> r.cache,
                   queries |-> r.queries]
             ELSE [exc |-> "none",
                   value |-> 100 * Round3(CompletedCount(r.goals),
                                          Len(r.goals)),
                   cache |-> r.cache, queries |-> r.queries]

\* PlanModel.get_plan_progress: the share of completed goals among the
\* goals of the plan, in thousandths.
get_plan_progress(p, cache, cat, db_ok) ==
    IF check_if_empty(p) # "none"
    THEN [exc |-> "EmptyPlanError", value |-> 0, cache |-> cache,
          queries |-> 0]
    ELSE LET r == ResolveAll(p, cache, cat, db_ok, <<>>, 0)
         IN  IF r.exc # "none"
             THEN [exc |-> r.exc, value |-> 0, cache |-> r.cache,
                   queries |-> r.queries]
             ELSE IF Len(r.goals) = 0
             THEN [exc |-> "ZeroDivisionError", value |-> 0,
                   cache |-> r.cache, queries |-> r.queries]
             ELSE [exc |-> "none",
                   value |-> Round3(CompletedCount(r.goals), Len(r.goals)),
                   cache |-> r.cache, queries |-> r.queries]

----------------------------------------------------------------------------
(* The state machine.                                                      *)

Call(op, arg, check, exc, value, goals, queries, db_ok) ==
    [op |-> op, arg |-> arg, check |-> check, exc |-> exc, value |-> value,
     goals |-> goals, queries |-> queries, db_ok |-> db_ok]

\* The threads that call the one PlanModel object of the application.
Threads == {1, 2}

\* A thread that is in no call.
IdleThread ==
    [pc |-> "idle", op |-> "none", x |-> 0, ret |-> "idle",
     goal |-> Goal(0, FALSE), queried |-> FALSE, first |-> FALSE,
     exc |-> "none"]

\* PlanModel.__init__ on a fresh database.
Init ==
    /\ plan = <<>>
    /\ goal_cache = <<>>
    /\ catalog = <<>>
    /\ call = Call("init", NoneArg, FALSE, "none", 0, <<>>, 0, TRUE)
    /\ pre_plan = <<>>
    /\ pre_cache = <<>>
    /\ other = [plan |-> <<>>, cache |-> <<>>]
    /\ threads = [t \in Threads |-> IdleThread]
    /\ overlapped = FALSE

\* The outcomes of the database during a call: it can fail only in a call
\* that reaches it (queries counts the lookups of the call when it is up).
DbOutcomes(queries) == IF queries = 0 THEN {TRUE} ELSE BOOLEAN

Begin ==
    /\ pre_plan' = plan
    /\ pre_cache' = goal_cache
    /\ UNCHANGED <<other, threads, overlapped>>

\* add_goal_to_plan on a class whose plan and cache are attributes of the
\* class, shared by its objects.
AddGoalWithSharedState(A) ==
    \E x \in A :
    \E db_ok \in DbOutcomes(
            add_goal_to_plan(plan, goal_cache, catalog, TRUE, x).queries) :
        LET r == add_goal_to_plan(plan, goal_cache, catalog, db_ok, x)
        IN  /\ pre_plan' = plan
            /\ pre_cache' = goal_cache
            /\ plan' = r.plan
            /\ goal_cache' = r.cache
            /\ other' = [plan |-> r.plan, cache |-> r.cache]
            /\ call' = Call("add_goal_to_plan", x, FALSE, r.exc, 0, <<>>,
                            r.queries, db_ok)
            /\ UNCHANGED <<catalog, threads, overlapped>>

AddGoalWith(A) ==
    \E x \in A :
    \E db_ok \in DbOutcomes(
            add_goal_to_plan(plan, goal_cache, catalog, TRUE, x).queries) :
        LET r == add_goal_to_plan(plan, goal_cache, catalog, db_ok, x)
        IN  /\ Begin
            /\ plan' = r.plan
            /\ goal_cache' = r.cache
            /\ call' = Call("add_goal_to_plan", x, FALSE, r.exc, 0, <<>>,
                            r.queries, db_ok)
            /\ UNCHANGED catalog

RemoveGoalWith(A) ==
    \E x \in A :
    \E db_ok \in DbOutcomes(
            remove_goal_by_goal_id(plan, goal_cache, catalog, TRUE, x).queries) :
        LET r == remove_goal_by_goal_id(plan, goal_cache, catalog, db_ok, x)
        IN  /\ Begin
            /\ plan' = r.plan
            /\ goal_cache' = r.cache
            /\ call' = Call("remove_goal_by_goal_id", x, TRUE, r.exc, 0,
                            <<>>, r.queries, db_ok)
            /\ UNCHANGED catalog

\* clear_plan that also empties the cache.
ClearPlanDroppingCache ==
    LET r == clear_plan(plan)
    IN  /\ Begin
        /\ plan' = r.plan
        /\ goal_cache' = <<>>
        /\ call' = Call("clear_plan", NoneArg, FALSE, r.exc, 0, <<>>, 0, TRUE)
        /\ UNCHANGED catalog

ClearPlan ==
    LET r == clear_plan(plan)
    IN  /\ Begin
        /\ plan' = r.plan
        /\ call' = Call("clear_plan", NoneArg, FALSE, r.exc, 0, <<>>, 0, TRUE)
        /\ UNCHANGED <<goal_cache, catalog>>

\* get_all_goals that leaves the plan in reverse order.
GetAllGoalsReversing ==
    \E db_ok \in DbOutcomes(
            get_all_goals(plan, goal_cache, catalog, TRUE).queries) :
        LET r == get_all_goals(plan, goal_cache, catalog, db_ok)
        IN  /\ Begin
            /\ goal_cache' = r.cache
            /\ plan' = [i \in 1..Len(plan) |-> plan[Len(plan) + 1 - i]]
            /\ call' = Call("get_all_goals", NoneArg, FALSE, r.exc, 0,
                            r.goals, r.queries, db_ok)
            /\ UNCHANGED catalog

GetAllGoals ==
    \E db_ok \in DbOutcomes(
            get_all_goals(plan, goal_cache, catalog, TRUE).queries) :
        LET r == get_all_goals(plan, goal_cache, catalog, db_ok)
        IN  /\ Begin
            /\ goal_cache' = r.cache
            /\ call' = Call("get_all_goals", NoneArg, FALSE, r.exc, 0,
                            r.goals, r.queries, db_ok)
            /\ UNCHANGED <<plan, catalog>>

GetGoalByIdWith(A) ==
    \E x \in A :
    \E db_ok \in DbOutcomes(
            get_goal_by_goal_id(plan, goal_cache, catalog, TRUE, x).queries) :
        LET r == get_goal_by_goal_id(plan, goal_cache, catalog, db_ok, x)
        IN  /\ Begin
            /\ goal_cache' = r.cache
            /\ call' = Call("get_goal_by_goal_id", x, TRUE, r.exc, 0,
                            r.goals, r.queries, db_ok)
            /\ UNCHANGED <<plan, catalog>>

GetPlanLength ==
    /\ Begin
    /\ call' = Call("get_plan_length", NoneArg, FALSE, "none",
                    get_plan_length(plan), <<>>, 0, TRUE)
    /\ UNCHANGED <<plan, goal_cache, catalog>>

\* PlanModel.check_if_empty called by itself: it raises or returns None.
CheckIfEmpty ==
    /\ Begin
    /\ call' = Call("check_if_empty", NoneArg, FALSE, check_if_empty(plan),
                    0, <<>>, 0, TRUE)
    /\ UNCHANGED <<plan, goal_cache, catalog>>

GetPlanProgress ==
    \E db_ok \in DbOutcomes(
            get_plan_progress(plan, goal_cache, catalog, TRUE).queries) :
        LET r == get_plan_progress(plan, goal_cache, catalog, db_ok)
        IN  /\ Begin
            /\ goal_cache' = r.cache
            /\ call' = Call("get_plan_progress", NoneArg, FALSE, r.exc,
                            r.value, <<>>, r.queries, db_ok)
            /\ UNCHANGED <<plan, catalog>>

ValidateGoalIdWith(A) ==
    \E x \in A, check_in_plan \in BOOLEAN :
    \E db_ok \in DbOutcomes(
            validate_goal_id(plan, goal_cache, catalog, TRUE, x,
                             check_in_plan).queries) :
        LET r == validate_goal_id(plan, goal_cache, catalog, db_ok, x,
                                  check_in_plan)
        IN  /\ Begin
            /\ goal_cache' = r.cache
            /\ call' = Call("validate_goal_id", x, check_in_plan, r.exc,
                            r.id, <<>>, r.queries, db_ok)
            /\ UNCHANGED <<plan, catalog>>

\* Goals.create_goal: a row, not completed, under a key the table does not
\* hold.
CreateGoal ==
    \E i \in GoalIds \ DOMAIN catalog :
        /\ Begin
        /\ catalog' = [k \in DOMAIN catalog \cup {i} |->
                          IF k = i THEN Goal(i, FALSE) ELSE catalog[k]]
        /\ call' = Call("create_goal", IntArg(i), FALSE, "none", 0, <<>>, 0, TRUE)
        /\ UNCHANGED <<plan, goal_cache>>

\* Goals.delete_goal, for an id the table holds or not.
DeleteGoal ==
    \E i \in GoalIds, db_ok \in BOOLEAN :
        LET r == delete_goal(catalog, db_ok, i)
        IN  /\ Begin
            /\ catalog' = r.cat
            /\ call' = Call("delete_goal", IntArg(i), FALSE, r.exc, 0, <<>>,
                            0, db_ok)
            /\ UNCHANGED <<plan, goal_cache>>

\* Goals.get_goal_by_id called on the Catalog itself.
CatalogGetById ==
    \E i \in GoalIds, db_ok \in BOOLEAN :
        LET r == get_goal_by_id(catalog, db_ok, i)
        IN  /\ Begin
            /\ call' = Call("get_goal_by_id", IntArg(i), FALSE, r.exc, 0,
                            IF r.exc = "none" THEN <<r.goal>> ELSE <<>>,
                            0, db_ok)
            /\ UNCHANGED <<plan, goal_cache, catalog>>

\* Goals.update_goal: the content of an existing row changes.
UpdateGoal ==
    \E i \in DOMAIN catalog :
        /\ Begin
        /\ catalog' = [catalog EXCEPT ![i] = Goal(i, ~catalog[i].completed)]
        /\ call' = Call("update_goal", IntArg(i), FALSE, "none", 0, <<>>, 0,
                        TRUE)
        /\ UNCHANGED <<plan, goal_cache>>

AddGoal == AddGoalWith(Args)

RemoveGoal == RemoveGoalWith(Args)

GetGoalById == GetGoalByIdWith(Args)

ValidateGoalId == ValidateGoalIdWith(Args)

Next ==
    \/ CheckIfEmpty
    \/ AddGoal
    \/ RemoveGoal
    \/ ClearPlan
    \/ GetAllGoals
    \/ GetGoalById
    \/ GetPlanLength
    \/ ValidateGoalId
    \/ CreateGoal
    \/ DeleteGoal

Spec == Init /\ [][Next]_vars

\* The integer ids as arguments.
IdArgs == {IntArg(i) : i \in GoalIds}

\* The same calls with integer ids, and a Catalog that also updates rows:
\* the cache then holds snapshots that differ from the rows.
NextUpdate ==
    \/ AddGoalWith(IdArgs)
    \/ RemoveGoalWith(IdArgs)
    \/ ClearPlan
    \/ GetAllGoals
    \/ GetGoalByIdWith(IdArgs)
    \/ GetPlanLength
    \/ GetPlanProgress
    \/ ValidateGoalIdWith(IdArgs)
    \/ CatalogGetById
    \/ CreateGoal
    \/ UpdateGoal
    \/ DeleteGoal

SpecUpdate == Init /\ [][NextUpdate]_vars

\* PlanModel(): a second object is constructed, replacing the one that is
\* not addressed.
Construct ==
    /\ pre_plan' = plan
    /\ pre_cache' = goal_cache
    /\ other' = [plan |-> <<>>, cache |-> <<>>]
    /\ call' = Call("__init__", NoneArg, FALSE, "none", 0, <<>>, 0, TRUE)
    /\ UNCHANGED <<plan, goal_cache, catalog, threads, overlapped>>

\* The caller turns to the other object: self is bound to it from now on.
Switch ==
    /\ plan' = other.plan
    /\ goal_cache' = other.cache
    /\ other' = [plan |-> plan, cache |-> goal_cache]
    /\ pre_plan' = other.plan
    /\ pre_cache' = other.cache
    /\ call' = Call("switch", NoneArg, FALSE, "none", 0, <<>>, 0, TRUE)
    /\ UNCHANGED <<catalog, threads, overlapped>>

\* Two PlanModel objects over one Goals table.
NextTwo ==
    \/ AddGoalWith(IdArgs)
    \/ RemoveGoalWith(IdArgs)
    \/ ClearPlan
    \/ GetAllGoals
    \/ CreateGoal
    \/ DeleteGoal
    \/ Construct
    \/ Switch

SpecTwo == Init /\ [][NextTwo]_vars

----------------------------------------------------------------------------
(* Calls of several threads on the one PlanModel object.  A call runs in   *)
(* steps, one per read or write of self.plan, of self._goal_cache or of    *)
(* the Goals table; the steps of different threads interleave freely, as   *)
(* no lock is taken.  pc is the next step of the thread, ret the step that *)
(* follows the resolution in progress, goal its result.  Each thread makes *)
(* one call and stays at "done" with its outcome.                          *)

\* Some other thread is in a call that has not finished.
OtherInCall(t) ==
    \E u \in Threads \ {t} : threads[u].pc \notin {"idle", "done"}

\* The step leaves the state of the single-call view alone.
ThreadFrame == UNCHANGED <<catalog, call, pre_plan, pre_cache, other>>

\* A thread enters add_goal_to_plan(x) or validate_goal_id(x, False) with an
\* integer id: the format test passes, the resolution comes next.
ThreadCall(t) ==
    /\ threads[t].pc = "idle"
    /\ \E op \in {"add_goal_to_plan", "validate_goal_id"}, x \in GoalIds :
          threads' = [threads EXCEPT ![t] =
                         [IdleThread EXCEPT
                             !.pc = "resolve_check", !.op = op, !.x = x,
                             !.ret = IF op = "add_goal_to_plan"
                                     THEN "dup_check" ELSE "done"]]
    /\ overlapped' = (overlapped \/ OtherInCall(t))
    /\ ThreadFrame
    /\ UNCHANGED <<plan, goal_cache>>

\* _get_goal_from_cache_or_db: the test of the cache and the return of a
\* hit.
ThreadResolveCheck(t) ==
    /\ threads[t].pc = "resolve_check"
    /\ threads' = [threads EXCEPT ![t] =
                      IF threads[t].x \in DOMAIN goal_cache
                      THEN [@ EXCEPT !.pc = threads[t].ret,
                                     !.goal = goal_cache[threads[t].x]]
                      ELSE [@ EXCEPT !.pc = "resolve_query"]]
    /\ ThreadFrame
    /\ UNCHANGED <<plan, goal_cache, overlapped>>

\* _get_goal_from_cache_or_db: Goals.get_goal_by_id.  A failure inside
\* validate_goal_id leaves as "not found in database"; later in
\* add_goal_to_plan a database error passes through.
ThreadResolveQuery(t) ==
    /\ threads[t].pc = "resolve_query"
    /\ \E db_ok \in BOOLEAN :
          LET r == get_goal_by_id(catalog, db_ok, threads[t].x)
          IN  threads' = [threads EXCEPT ![t] =
                  IF r.exc = "none"
                  THEN [@ EXCEPT
                           !.pc = "resolve_store", !.goal = r.goal,
                           !.queried = TRUE,
                           !.first = \A u \in Threads \ {t} :
                                        ~threads[u].queried]
                  ELSE [@ EXCEPT
                           !.pc = "done",
                           !.exc = IF r.exc = "ValueError"
                                      \/ threads[t].ret # "append"
                                   THEN "NotFoundError" ELSE r.exc]]
    /\ ThreadFrame
    /\ UNCHANGED <<plan, goal_cache, overlapped>>

\* _get_goal_from_cache_or_db that stores with setdefault: an entry that is
\* there stays.
ThreadResolveStoreIfAbsent(t) ==
    /\ threads[t].pc = "resolve_store"
    /\ goal_cache' = IF threads[t].x \in DOMAIN goal_cache THEN goal_cache
                     ELSE [k \in DOMAIN goal_cache \cup {threads[t].x} |->
                              IF k = threads[t].x THEN threads[t].goal
                              ELSE goal_cache[k]]
    /\ threads' = [threads EXCEPT ![t] = [@ EXCEPT !.pc = threads[t].ret]]
    /\ ThreadFrame
    /\ UNCHANGED <<plan, overlapped>>

\* _get_goal_from_cache_or_db: self._goal_cache[goal_id] = goal.
ThreadResolveStore(t) ==
    /\ threads[t].pc = "resolve_store"
    /\ goal_cache' = [k \in DOMAIN goal_cache \cup {threads[t].x} |->
                         IF k = threads[t].x THEN threads[t].goal
                         ELSE goal_cache[k]]
    /\ threads' = [threads EXCEPT ![t] = [@ EXCEPT !.pc = threads[t].ret]]
    /\ ThreadFrame
    /\ UNCHANGED <<plan, overlapped>>

\* add_goal_to_plan without the test for an id already in the plan.
ThreadDupCheckSkipped(t) ==
    /\ threads[t].pc = "dup_check"
    /\ threads' = [threads EXCEPT ![t] =
                      [@ EXCEPT !.pc = "resolve_check", !.ret = "append"]]
    /\ ThreadFrame
    /\ UNCHANGED <<plan, goal_cache, overlapped>>

\* add_goal_to_plan: "if goal_id in self.plan: raise", then on to the
\* resolution of the goal.
ThreadDupCheck(t) ==
    /\ threads[t].pc = "dup_check"
    /\ threads' = [threads EXCEPT ![t] =
                      IF InPlan(plan, threads[t].x)
                      THEN [@ EXCEPT !.pc = "done",
                                     !.exc = "DuplicateEntryError"]
                      ELSE [@ EXCEPT !.pc = "resolve_check",
                                     !.ret = "append"]]
    /\ ThreadFrame
    /\ UNCHANGED <<plan, goal_cache, overlapped>>

\* add_goal_to_plan: self.plan.append(goal.id).
ThreadAppend(t) ==
    /\ threads[t].pc = "append"
    /\ plan' = Append(plan, threads[t].goal.id)
    /\ threads' = [threads EXCEPT ![t] = [@ EXCEPT !.pc = "done"]]
    /\ ThreadFrame
    /\ UNCHANGED <<goal_cache, overlapped>>

NextThreads ==
    \/ \E t \in Threads : ThreadCall(t)
    \/ \E t \in Threads : ThreadResolveCheck(t)
    \/ \E t \in Threads : ThreadResolveQuery(t)
    \/ \E t \in Threads : ThreadResolveStore(t)
    \/ \E t \in Threads : ThreadDupCheck(t)
    \/ \E t \in Threads : ThreadAppend(t)
    \/ CreateGoal
    \/ UpdateGoal

SpecThreads == Init /\ [][NextThreads]_vars

----------------------------------------------------------------------------
(* remove_goal_by_goal_id in steps, for calls of several threads.  The     *)
(* plan is built by whole calls while no thread is in a call.              *)

\* No thread has entered a call.
Quiet == \A t \in Threads : threads[t].pc = "idle"

\* A thread enters remove_goal_by_goal_id(x) with an integer id.
ThreadCallRemove(t) ==
    /\ threads[t].pc = "idle"
    /\ \E x \in GoalIds :
          threads' = [threads EXCEPT ![t] =
                         [IdleThread EXCEPT
                             !.pc = "empty_check",
                             !.op = "remove_goal_by_goal_id", !.x = x,
                             !.ret = "plan_recheck"]]
    /\ overlapped' = (overlapped \/ OtherInCall(t))
    /\ ThreadFrame
    /\ UNCHANGED <<plan, goal_cache>>

\* remove_goal_by_goal_id: self.check_if_empty().
ThreadEmptyCheck(t) ==
    /\ threads[t].pc = "empty_check"
    /\ threads' = [threads EXCEPT ![t] =
                      IF check_if_empty(plan) # "none"
                      THEN [@ EXCEPT !.pc = "done",
                                     !.exc = "EmptyPlanError"]
                      ELSE [@ EXCEPT !.pc = "plan_check"]]
    /\ ThreadFrame
    /\ UNCHANGED <<plan, goal_cache, overlapped>>

\* validate_goal_id(goal_id): the test of the plan, then on to the
\* resolution.
ThreadPlanCheck(t) ==
    /\ threads[t].pc = "plan_check"
    /\ threads' = [threads EXCEPT ![t] =
                      IF ~InPlan(plan, threads[t].x)
                      THEN [@ EXCEPT !.pc = "done",
                                     !.exc = "NotInPlanError"]
                      ELSE [@ EXCEPT !.pc = "resolve_check"]]
    /\ ThreadFrame
    /\ UNCHANGED <<plan, goal_cache, overlapped>>

\* remove_goal_by_goal_id: "if goal_id not in self.plan: raise".
ThreadPlanRecheck(t) ==
    /\ threads[t].pc = "plan_recheck"
    /\ threads' = [threads EXCEPT ![t] =
                      IF ~InPlan(plan, threads[t].x)
                      THEN [@ EXCEPT !.pc = "done",
                                     !.exc = "NotInPlanError"]
                      ELSE [@ EXCEPT !.pc = "remove"]]
    /\ ThreadFrame
    /\ UNCHANGED <<plan, goal_cache, overlapped>>

\* remove_goal_by_goal_id that removes the id only if it is there and
\* reports success either way.
ThreadRemoveIfPresent(t) ==
    /\ threads[t].pc = "remove"
    /\ plan' = ListRemove(plan, threads[t].x)
    /\ threads' = [threads EXCEPT ![t] = [@ EXCEPT !.pc = "done"]]
    /\ ThreadFrame
    /\ UNCHANGED <<goal_cache, overlapped>>

\* remove_goal_by_goal_id: self.plan.remove(goal_id), which raises
\* ValueError when the id is not in the list.
ThreadRemove(t) ==
    /\ threads[t].pc = "remove"
    /\ plan' = ListRemove(plan, threads[t].x)
    /\ threads' = [threads EXCEPT ![t] =
                      IF InPlan(plan, threads[t].x)
                      THEN [@ EXCEPT !.pc = "done"]
                      ELSE [@ EXCEPT !.pc = "done", !.exc = "ValueError"]]
    /\ ThreadFrame
    /\ UNCHANGED <<goal_cache, overlapped>>

NextRemove ==
    \/ Quiet /\ AddGoalWith(IdArgs)
    \/ Quiet /\ CreateGoal
    \/ Quiet /\ DeleteGoal
    \/ \E t \in Threads : ThreadCall(t)
    \/ \E t \in Threads : ThreadCallRemove(t)
    \/ \E t \in Threads : ThreadEmptyCheck(t)
    \/ \E t \in Threads : ThreadPlanCheck(t)
    \/ \E t \in Threads : ThreadResolveCheck(t)
    \/ \E t \in Threads : ThreadResolveQuery(t)
    \/ \E t \in Threads : ThreadResolveStore(t)
    \/ \E t \in Threads : ThreadDupCheck(t)
    \/ \E t \in Threads : ThreadPlanRecheck(t)
    \/ \E t \in Threads : ThreadAppend(t)
    \/ \E t \in Threads : ThreadRemove(t)

SpecRemove == Init /\ [][NextRemove]_vars

----------------------------------------------------------------------------
(* Vocabulary of the properties.  call, pre_plan and pre_cache describe    *)
(* the step that led to the current state.                                 *)

NoDuplicates(p) == \A a, b \in 1..Len(p) : p[a] = p[b] => a = b

\* The argument of the last call is a non-negative integer after int().
WellFormed == PyInt(call.arg).exc = "none" /\ PyInt(call.arg).v >= 0

\* The id the argument of the last call stands for.
CallId == PyInt(call.arg).v

Did(op) == call.op = op

Succeeded(op) == call.op = op /\ call.exc = "none"

Failed(op) == call.op = op /\ call.exc # "none"

\* p without the elements equal to i, the order kept.
Without(p, i) == LET Keep(e) == e # i IN SelectSeq(p, Keep)

----------------------------------------------------------------------------
\* C1: whatever sequence of calls of PlanModel and changes of the Catalog
\* led here, no id occurs twice in the plan.
C1_NoDuplicateIds == NoDuplicates(plan)

\* C1 witness: an add_goal_to_plan for an id of the plan was just
\* refused, the plan holding two ids.
C1_Witness ==
    /\ Did("add_goal_to_plan")
    /\ call.exc = "DuplicateEntryError"
    /\ Len(plan) = 2

\* C2: add_goal_to_plan with an argument whose coerced id is in the plan
\* fails with DuplicateEntryError and leaves the plan as it was, whatever the
\* Catalog holds for that id.
C2_DuplicateRefused ==
    (Did("add_goal_to_plan") /\ WellFormed /\ InPlan(pre_plan, CallId))
        => (call.exc = "DuplicateEntryError" /\ plan = pre_plan)

\* C2 witness: the duplicate was refused although the Catalog no longer has
\* a goal with that id.
C2_Witness ==
    /\ Did("add_goal_to_plan")
    /\ call.exc = "DuplicateEntryError"
    /\ CallId \notin DOMAIN catalog

\* C3 as stated: whenever add_goal_to_plan succeeds, the Catalog holds a goal
\* with that id at that moment.
C3_AddOnlyCatalogued ==
    Succeeded("add_goal_to_plan") => CallId \in DOMAIN catalog

\* C3 amended: add_goal_to_plan fails with NotFoundError when the id is
\* well-formed, has no cache entry and the Catalog has no goal with that id;
\* when it succeeds, the Catalog holds the goal or the cache held it before
\* the call.
C3_AddNeedsCacheOrCatalog ==
    Did("add_goal_to_plan") =>
        /\ (WellFormed /\ CallId \notin DOMAIN pre_cache
                /\ CallId \notin DOMAIN catalog)
              => call.exc = "NotFoundError"
        /\ call.exc = "none"
              => (CallId \in DOMAIN catalog \/ CallId \in DOMAIN pre_cache)

\* C3 witness: an add_goal_to_plan succeeded from the cache for a goal the
\* Catalog has deleted.
C3_Witness ==
    /\ Succeeded("add_goal_to_plan")
    /\ CallId \notin DOMAIN catalog
    /\ CallId \in DOMAIN pre_cache

C5_AddAppends ==
    Succeeded("add_goal_to_plan") => plan = Append(pre_plan, CallId)

\* C5 witness: an id given as a string was appended to a plan that held
\* another id.
C5_Witness ==
    /\ Succeeded("add_goal_to_plan")
    /\ call.arg.kind = "str"
    /\ Len(pre_plan) = 1

C7_AbsentIdNotInPlan ==
    ((Did("remove_goal_by_goal_id") \/ Did("get_goal_by_goal_id"))
        /\ pre_plan # <<>> /\ WellFormed /\ ~InPlan(pre_plan, CallId))
        => (call.exc = "NotInPlanError" /\ plan = pre_plan)

\* C7 witness: an id that was in the plan earlier (it is cached) and then
\* removed is removed again while another id remains, and the Catalog has
\* no such goal any more.
C7_Witness ==
    /\ Did("remove_goal_by_goal_id")
    /\ call.exc = "NotInPlanError"
    /\ CallId \in DOMAIN pre_cache
    /\ CallId \notin DOMAIN catalog
    /\ Len(plan) = 1

\* C8: on an empty plan get_all_goals, get_goal_by_goal_id and
\* remove_goal_by_goal_id fail with EmptyPlanError whatever the argument,
\* malformed ones included, and leave plan and cache as they were.
C8_EmptyPlanFirst ==
    ((Did("get_all_goals") \/ Did("get_goal_by_goal_id")
            \/ Did("remove_goal_by_goal_id")) /\ pre_plan = <<>>)
        => /\ call.exc = "EmptyPlanError"
           /\ plan = pre_plan
           /\ goal_cache = pre_cache

\* C8 witness: get_goal_by_goal_id on an empty plan with an argument that
\* is no integer failed with EmptyPlanError.
C8_Witness ==
    /\ Did("get_goal_by_goal_id")
    /\ pre_plan = <<>>
    /\ ~WellFormed
    /\ call.exc = "EmptyPlanError"

\* C9: clear_plan never fails, the plan is empty after it and the cache as
\* before; a second clear_plan right after it yields the same state.
C9_ClearIdempotent ==
    Did("clear_plan") =>
        /\ call.exc = "none"
        /\ plan = <<>>
        /\ goal_cache = pre_cache
        /\ clear_plan(plan) = [exc |-> "none", plan |-> plan]

\* C9 witness: clear_plan was called on a plan that was already empty.
C9_Witness == Did("clear_plan") /\ pre_plan = <<>> /\ call.exc = "none"

\* C10: for an id that is in the plan (added and neither removed nor
\* cleared since), get_goal_by_goal_id succeeds and returns a goal with that
\* id, and get_all_goals succeeds and returns exactly one goal with that id.
C10_RoundTrip ==
    /\ (Did("get_goal_by_goal_id") /\ WellFormed /\ InPlan(pre_plan, CallId))
          => (call.exc = "none" /\ Len(call.goals) = 1
                /\ call.goals[1].id = CallId)
    /\ (Did("get_all_goals") /\ pre_plan # <<>>)
          => /\ call.exc = "none"
             /\ \A k \in 1..Len(plan) :
                   Cardinality({j \in 1..Len(call.goals) :
                                   call.goals[j].id = plan[k]}) = 1

\* C10 witness: get_goal_by_goal_id returned the goal of an id of the plan
\* after the Catalog had deleted it.
C10_Witness ==
    /\ Succeeded("get_goal_by_goal_id")
    /\ InPlan(plan, CallId)
    /\ call.goals[1].id = CallId
    /\ CallId \notin DOMAIN catalog

\* C11: on a non-empty plan get_all_goals succeeds and returns as many
\* goals as the plan has ids, the i-th goal having the i-th id of the plan.
C11_AllGoalsInPlanOrder ==
    (Did("get_all_goals") /\ pre_plan # <<>>)
        => /\ call.exc = "none"
           /\ Len(call.goals) = Len(plan)
           /\ \A i \in 1..Len(plan) : call.goals[i].id = plan[i]

\* C11 witness: get_all_goals returned the goals of a plan of two ids that
\* is not in ascending order of id.
C11_Witness ==
    /\ Succeeded("get_all_goals")
    /\ Len(plan) = 2
    /\ plan[1] > plan[2]
    /\ call.goals[1].id = plan[1]

ReadOps ==
    {"get_all_goals", "get_goal_by_goal_id", "get_plan_length",
     "validate_goal_id"}

PlanWriteOps == {"add_goal_to_plan", "remove_goal_by_goal_id", "clear_plan"}

\* C12: after get_all_goals, get_goal_by_goal_id, get_plan_length or
\* validate_goal_id, failed or not, the plan is the plan of before the call;
\* a step that changed the plan was add_goal_to_plan,
\* remove_goal_by_goal_id or clear_plan.
C12_ReadsKeepPlan ==
    /\ call.op \in ReadOps => plan = pre_plan
    /\ plan # pre_plan => call.op \in PlanWriteOps

\* C12 witness: get_all_goals read a plan of two ids in ascending order.
C12_Witness ==
    /\ Succeeded("get_all_goals")
    /\ Len(pre_plan) = 2
    /\ pre_plan[1] < pre_plan[2]

\* C13: validate_goal_id reports InvalidIdError for every argument that is
\* not a non-negative integer after int(); otherwise, with check_in_plan
\* set and the id not in the plan, NotInPlanError without a Catalog query;
\* NotFoundError only when neither of the two applies.
C13_ErrorPrecedence ==
    Did("validate_goal_id")
        => /\ ~WellFormed => call.exc = "InvalidIdError"
           /\ (WellFormed /\ call.check /\ ~InPlan(pre_plan, CallId))
                 => (call.exc = "NotInPlanError" /\ call.queries = 0)
           /\ call.exc = "NotFoundError"
                 => (WellFormed /\ (call.check => InPlan(pre_plan, CallId)))

\* C14: validate_goal_id fails with InvalidIdError for every argument that
\* int() does not convert and for every argument that converts to a
\* negative integer, for both values of check_in_plan, and leaves plan and
\* cache as they were.
C14_InvalidIdRejected ==
    (Did("validate_goal_id") /\ ~WellFormed)
        => /\ call.exc = "InvalidIdError"
           /\ plan = pre_plan
           /\ goal_cache = pre_cache

\* C15: validate_goal_id with check_in_plan = False, for a non-negative
\* integer id that is neither in the cache nor in the Catalog, queries the
\* Catalog and fails with NotFoundError.
C15_UncheckedStillResolves ==
    (/\ Did("validate_goal_id")
     /\ ~call.check
     /\ WellFormed
     /\ CallId \notin DOMAIN pre_cache
     /\ CallId \notin DOMAIN catalog)
        => (call.exc = "NotFoundError" /\ call.queries = 1)

\* C15 witness: the plan is [1], the Catalog has no goal 2, and
\* validate_goal_id(2, False) failed with NotFoundError.
C15_Witness ==
    /\ Did("validate_goal_id")
    /\ ~call.check
    /\ call.arg = IntArg(2)
    /\ plan = <<1>>
    /\ 2 \notin DOMAIN catalog
    /\ call.exc = "NotFoundError"

\* C16: validate_goal_id succeeds and returns int(goal_id) whenever that is
\* a non-negative integer, the id is in the cache or the Catalog returns its
\* goal, and check_in_plan is False or the id is in the plan.
C16_ValidateSucceeds ==
    (/\ Did("validate_goal_id")
     /\ WellFormed
     /\ \/ CallId \in DOMAIN pre_cache
        \/ (CallId \in DOMAIN catalog /\ call.db_ok)
     /\ call.check => InPlan(pre_plan, CallId))
        => (call.exc = "none" /\ call.value = CallId)

\* C16 witness: validate_goal_id(" 1", False) returned 1 for an id of the
\* Catalog that is not in the plan.
C16_Witness ==
    /\ Succeeded("validate_goal_id")
    /\ call.arg = StrArg(<<" ", "1">>)
    /\ ~call.check
    /\ ~InPlan(plan, 1)
    /\ call.value = 1

\* The calls that resolve the id they are given.
IdOps ==
    {"add_goal_to_plan", "remove_goal_by_goal_id", "get_goal_by_goal_id",
     "validate_goal_id"}

\* C17: a call queries the Catalog only for an id that was not in the cache
\* before it, and at most once for that id; get_goal_by_goal_id of a cached
\* id returns the cached goal with no Catalog query.
C17_ResolvedIdNotQueriedAgain ==
    /\ call.queries > 0
          => IF Did("get_all_goals")
             THEN \E k \in 1..Len(pre_plan) :
                      pre_plan[k] \notin DOMAIN pre_cache
             ELSE /\ call.op \in IdOps
                  /\ WellFormed
                  /\ CallId \notin DOMAIN pre_cache
                  /\ call.queries = 1
    /\ (Succeeded("get_goal_by_goal_id") /\ CallId \in DOMAIN pre_cache)
          => (call.queries = 0 /\ call.goals = <<pre_cache[CallId]>>)

\* C17 witness: get_goal_by_goal_id returned the cached goal of an id
\* without a query, the Catalog holding another content for it by now.
C17_Witness ==
    /\ Succeeded("get_goal_by_goal_id")
    /\ CallId \in DOMAIN pre_cache
    /\ call.queries = 0
    /\ CallId \in DOMAIN catalog
    /\ catalog[CallId] # pre_cache[CallId]

\* C18: an id that entered the cache in a call entered it through one
\* Catalog query, and its entry is the row the Catalog holds; a call that
\* resolves an uncached id of the Catalog, the query not failing, leaves
\* that id in the cache.
C18_MissIsStored ==
    /\ \A i \in DOMAIN goal_cache \ DOMAIN pre_cache :
          /\ call.queries = 1
          /\ i \in DOMAIN catalog
          /\ goal_cache[i] = catalog[i]
    /\ (/\ call.op \in IdOps
        /\ WellFormed
        /\ call.queries = 1
        /\ call.db_ok
        /\ CallId \in DOMAIN catalog)
          => (/\ CallId \notin DOMAIN pre_cache
              /\ CallId \in DOMAIN goal_cache
              /\ goal_cache[CallId] = catalog[CallId])

\* C18 witness: validate_goal_id queried the Catalog for an uncached id
\* whose row had been updated, and the cache now holds the updated row.
C18_Witness ==
    /\ Succeeded("validate_goal_id")
    /\ call.queries = 1
    /\ CallId \notin DOMAIN pre_cache
    /\ goal_cache[CallId] = Goal(CallId, TRUE)

\* The Catalog after it gained a goal with id i.
CatalogWith(i) ==
    [k \in DOMAIN catalog \cup {i} |->
        IF k = i THEN Goal(i, FALSE) ELSE catalog[k]]

\* C19: a call that failed because the Catalog has no goal of the id left
\* the cache as it was; once the Catalog has a goal with that id,
\* validate_goal_id succeeds for it, and add_goal_to_plan succeeds and
\* appends it.
C19_NoNegativeCaching ==
    (/\ call.op \in IdOps
     /\ call.exc = "NotFoundError"
     /\ WellFormed
     /\ CallId \notin DOMAIN catalog)
        => /\ goal_cache = pre_cache
           /\ CallId \notin DOMAIN goal_cache
           /\ CallId >= 1
                 => /\ LET v == validate_goal_id(plan, goal_cache,
                                                 CatalogWith(CallId), TRUE,
                                                 call.arg, FALSE)
                       IN  v.exc = "none" /\ v.id = CallId
                    /\ LET r == add_goal_to_plan(plan, goal_cache,
                                                 CatalogWith(CallId), TRUE,
                                                 call.arg)
                       IN  r.exc = "none" /\ r.plan = Append(plan, CallId)

\* C19 witness: add_goal_to_plan failed with NotFoundError for an id the
\* Catalog can assign and does not have, other ids being cached.
C19_Witness ==
    /\ Failed("add_goal_to_plan")
    /\ call.exc = "NotFoundError"
    /\ WellFormed
    /\ CallId \in GoalIds \ DOMAIN catalog
    /\ goal_cache # <<>>
    /\ goal_cache = pre_cache

PlanOps == ReadOps \cup PlanWriteOps

\* C21: PlanModel() yields an object with an empty plan and an empty cache
\* and leaves the existing object as it is; a call on one object leaves
\* plan and cache of the other object as they are.
C21_InstancesIndependent ==
    [][/\ call'.op = "__init__"
            => /\ other' = [plan |-> <<>>, cache |-> <<>>]
               /\ plan' = plan
               /\ goal_cache' = goal_cache
       /\ call'.op \in PlanOps => other' = other]_vars

\* C21 witness: add_goal_to_plan succeeded on one object while the other
\* object holds a plan without that id.
C21_Witness ==
    /\ Succeeded("add_goal_to_plan")
    /\ other.plan # <<>>
    /\ ~InPlan(other.plan, CallId)
    /\ CallId \notin DOMAIN other.cache

\* The number of ids of the plan whose cached goal is completed.
CompletedInPlan ==
    Cardinality({k \in 1..Len(plan) :
                    plan[k] \in DOMAIN goal_cache
                        /\ goal_cache[plan[k]].completed})

\* C22: on a non-empty plan get_plan_progress succeeds and returns the
\* number of completed goals of the plan divided by the number of goals of
\* the plan, to the nearest thousandth, a value from 0 to 1; one completed
\* goal out of two gives 0.5.
C22_ProgressIsCompletedShare ==
    (Did("get_plan_progress") /\ pre_plan # <<>>)
        => /\ call.exc = "none"
           /\ call.value \in 0..1000
           /\ 2 * (1000 * CompletedInPlan - call.value * Len(plan))
                 \in (0 - Len(plan))..Len(plan)
           /\ (CompletedInPlan = 1 /\ Len(plan) = 2) => call.value = 500

\* C22 witness: get_plan_progress returned 0.5 for a plan of one goal that
\* is not completed and one that is.
C22_Witness ==
    /\ Succeeded("get_plan_progress")
    /\ Len(plan) = 2
    /\ ~goal_cache[plan[1]].completed
    /\ goal_cache[plan[2]].completed
    /\ call.value = 500

C24_CatalogFailurePropagates ==
    /\ (call.op \in IdOps \cup {"get_all_goals"}
            /\ call.queries >= 1 /\ ~call.db_ok)
          => call.exc = "SQLAlchemyError"
    /\ call.exc = "NotFoundError"
          => /\ call.queries >= 1
             /\ call.db_ok
             /\ CallId \notin DOMAIN pre_cache
             /\ CallId \notin DOMAIN catalog

\* C27: Goals.get_goal_by_id, the database not failing, returns the row of
\* the id when the table holds one and raises ValueError exactly when it
\* holds none; Goals.delete_goal removes the row of the id, after which the
\* table holds none for it, and raises ValueError, the table unchanged,
\* when there is no such row.
C27_CatalogNotFound ==
    [][/\ (call'.op = "get_goal_by_id" /\ call'.db_ok)
            => IF call'.arg.n \in DOMAIN catalog
               THEN /\ call'.exc = "none"
                    /\ call'.goals = <<catalog[call'.arg.n]>>
               ELSE call'.exc = "ValueError"
       /\ (call'.op = "delete_goal" /\ call'.db_ok)
            => IF call'.arg.n \in DOMAIN catalog
               THEN /\ call'.exc = "none"
                    /\ call'.arg.n \notin DOMAIN catalog'
                    /\ get_goal_by_id(catalog', TRUE, call'.arg.n).exc
                          = "ValueError"
               ELSE call'.exc = "ValueError" /\ catalog' = catalog]_vars

\* C27 witness: get_goal_by_id raised ValueError for an id whose goal had
\* been loaded into the cache and deleted from the table since.
C27_Witness ==
    /\ Did("get_goal_by_id")
    /\ call.db_ok
    /\ call.exc = "ValueError"
    /\ CallId \in DOMAIN goal_cache
    /\ CallId \notin DOMAIN catalog

PlanModelErrors ==
    {"InvalidIdError", "NotInPlanError", "DuplicateEntryError",
     "NotFoundError", "EmptyPlanError"}

\* C28: a call of PlanModel that failed with InvalidIdError,
\* NotInPlanError, DuplicateEntryError, NotFoundError or EmptyPlanError
\* left the plan and the cache as they were before the call.
C28_FailureChangesNothing ==
    (call.op \in PlanOps /\ call.exc \in PlanModelErrors)
        => (plan = pre_plan /\ goal_cache = pre_cache)

\* C28 witness: add_goal_to_plan failed with DuplicateEntryError on a plan
\* of two ids, the cache holding their goals.
C28_Witness ==
    /\ Failed("add_goal_to_plan")
    /\ call.exc = "DuplicateEntryError"
    /\ Len(plan) = 2
    /\ goal_cache # <<>>
    /\ plan = pre_plan
    /\ goal_cache = pre_cache

\* C29: every id of the plan is a key of the cache.
C29_PlanIdsAreCached ==
    \A k \in 1..Len(plan) : plan[k] \in DOMAIN goal_cache

\* C29 witness: the plan holds an id that the Catalog no longer has, and
\* the cache holds its goal.
C29_Witness ==
    /\ plan # <<>>
    /\ plan[1] \notin DOMAIN catalog
    /\ plan[1] \in DOMAIN goal_cache

\* C30: remove_goal_by_goal_id and get_goal_by_goal_id for an id of the
\* plan succeed, whether or not the Catalog still has the goal.
C30_PlanIdAlwaysUsable ==
    (/\ call.op \in {"remove_goal_by_goal_id", "get_goal_by_goal_id"}
     /\ WellFormed
     /\ InPlan(pre_plan, CallId))
        => call.exc = "none"

\* C30 witness: remove_goal_by_goal_id took an id out of the plan whose
\* goal the Catalog had deleted.
C30_Witness ==
    /\ Succeeded("remove_goal_by_goal_id")
    /\ InPlan(pre_plan, CallId)
    /\ ~InPlan(plan, CallId)
    /\ CallId \notin DOMAIN catalog

\* The thread finished add_goal_to_plan(x) without an error.
Added(t, x) ==
    /\ threads[t].pc = "done"
    /\ threads[t].op = "add_goal_to_plan"
    /\ threads[t].x = x
    /\ threads[t].exc = "none"

\* C25: with calls of two threads on one PlanModel and no lock, the plan
\* can hold an id twice only when two calls were in progress at the same
\* time; such a run exists (the witness): both add_goal_to_plan(x) pass
\* the test of the plan before either appends, and both succeed.
C25_DuplicateOnlyByOverlap ==
    /\ ~overlapped => NoDuplicates(plan)
    /\ \A x \in GoalIds :
          Cardinality({k \in 1..Len(plan) : plan[k] = x})
              = Cardinality({t \in Threads : Added(t, x)})

\* C25 witness: two threads finished add_goal_to_plan(1) without an error
\* and the plan is [1, 1].
C25_Witness ==
    /\ Added(1, 1)
    /\ Added(2, 1)
    /\ plan = <<1, 1>>
    /\ overlapped

\* C26: a thread's store leaves its own goal in the cache under the id,
\* whatever was there (the last write stays); an entry of the cache is
\* replaced only when two calls were in progress at the same time.
C26_LastWriteStays ==
    [][/\ \A t \in Threads :
             (threads[t].pc = "resolve_store"
                  /\ threads'[t].pc # "resolve_store")
                => /\ threads[t].x \in DOMAIN goal_cache'
                   /\ goal_cache'[threads[t].x] = threads[t].goal
       /\ ~overlapped'
             => \A i \in DOMAIN goal_cache :
                   i \in DOMAIN goal_cache'
                       /\ goal_cache'[i] = goal_cache[i]]_vars

\* C26 witness: both threads missed the cache for id 1 and queried the
\* Catalog, thread 1 first, the row changing in between; both stored, and
\* the cache holds what thread 1 loaded, not the newer goal of thread 2.
C26_Witness ==
    /\ threads[1].x = 1 /\ threads[2].x = 1
    /\ threads[1].pc = "done" /\ threads[2].pc = "done"
    /\ threads[1].queried /\ threads[2].queried
    /\ threads[1].first /\ ~threads[2].first
    /\ threads[1].goal # threads[2].goal
    /\ goal_cache[1] = threads[1].goal
    /\ catalog[1] = threads[2].goal

\* C31: get_all_goals on a non-empty plan succeeds without a Catalog query
\* and leaves the cache as it was.
C31_AllGoalsFromCache ==
    (Did("get_all_goals") /\ pre_plan # <<>>)
        => /\ call.exc = "none"
           /\ call.queries = 0
           /\ goal_cache = pre_cache

\* C31 witness: get_all_goals returned the two goals of the plan with no
\* query, the Catalog holding neither of them any more.
C31_Witness ==
    /\ Succeeded("get_all_goals")
    /\ Len(call.goals) = 2
    /\ call.queries = 0
    /\ catalog = <<>>

\* C32: one call of add_goal_to_plan, remove_goal_by_goal_id,
\* get_goal_by_goal_id or validate_goal_id asks the Catalog at most once;
\* after a lookup that returned the goal the id is in the cache, and a
\* lookup that failed ends the call with an error.
C32_NoRetry ==
    call.op \in IdOps
        => /\ call.queries <= 1
           /\ (call.queries = 1 /\ call.exc = "none")
                 => (CallId \in DOMAIN goal_cache
                        /\ CallId \notin DOMAIN pre_cache)
           /\ (call.queries = 1
                  /\ (~call.db_ok \/ CallId \notin DOMAIN catalog))
                 => (call.exc # "none" /\ goal_cache = pre_cache)

\* C32 witness: add_goal_to_plan, which resolves the id twice, succeeded
\* with one query.
C32_Witness ==
    /\ Succeeded("add_goal_to_plan")
    /\ call.queries = 1
    /\ InPlan(plan, CallId)

\* C33: check_if_empty fails with EmptyPlanError exactly when the plan has
\* no element, and otherwise completes; either way plan and cache are as
\* they were.
C33_EmptinessCheck ==
    Did("check_if_empty")
        => /\ call.exc = (IF pre_plan = <<>> THEN "EmptyPlanError"
                          ELSE "none")
           /\ plan = pre_plan
           /\ goal_cache = pre_cache

\* C33 witness: check_if_empty completed on a plan of one id.
C33_Witness ==
    /\ Succeeded("check_if_empty")
    /\ Len(plan) = 1
    /\ goal_cache # <<>>

\* C34: the elements of the plan and the keys of the cache are
\* non-negative integers; add_goal_to_plan of the string " 1" or of the
\* float 1.5, each of which int() turns into 1, on a plan that holds 1
\* fails with DuplicateEntryError, and on a plan without 1 a success
\* appends the integer 1.
C34_IdsAreCoercedIntegers ==
    /\ \A k \in 1..Len(plan) : plan[k] \in Nat
    /\ \A i \in DOMAIN goal_cache : i \in Nat
    /\ (Did("add_goal_to_plan")
            /\ call.arg \in {StrArg(<<" ", "1">>), FloatArg(3), IntArg(1)})
          => IF InPlan(pre_plan, 1)
             THEN call.exc = "DuplicateEntryError" /\ plan = pre_plan
             ELSE call.exc = "none" => plan = Append(pre_plan, 1)

\* C34 witness: the plan holds 1, and add_goal_to_plan(" 1") failed with
\* DuplicateEntryError.
C34_Witness ==
    /\ Did("add_goal_to_plan")
    /\ call.arg = StrArg(<<" ", "1">>)
    /\ InPlan(plan, 1)
    /\ call.exc = "DuplicateEntryError"

\* The plan when the threads entered their calls: the plan after the last
\* whole call, none being made once a thread is in a call.
StartPlan ==
    IF Succeeded("add_goal_to_plan") THEN Append(pre_plan, CallId)
    ELSE pre_plan

\* Both threads are in, or through, remove_goal_by_goal_id(x).
BothRemove(x) ==
    \A t \in Threads :
        threads[t].op = "remove_goal_by_goal_id" /\ threads[t].x = x

BothDone == \A t \in Threads : threads[t].pc = "done"

\* C35: two calls remove_goal_by_goal_id(x) of two threads on a plan that
\* holds x, in any interleaving, take x out at most once and nothing else:
\* the plan is the one they started on or that one without x, and when
\* both are over the plan is shorter by one, the other ids are in their
\* order, one call succeeded and the other ended with an error.
C35_ConcurrentRemoveOnce ==
    \A x \in GoalIds :
        (BothRemove(x) /\ InPlan(StartPlan, x))
            => /\ plan \in {StartPlan, Without(StartPlan, x)}
               /\ BothDone
                     => /\ plan = Without(StartPlan, x)
                        /\ Len(plan) = Len(StartPlan) - 1
                        /\ Cardinality({t \in Threads :
                                           threads[t].exc = "none"}) = 1

\* C35 witness: both threads passed every test of the plan before either
\* removed; the plan [2, 1] became [2], and the second plan.remove(1)
\* raised ValueError.
C35_Witness ==
    /\ BothRemove(1)
    /\ BothDone
    /\ overlapped
    /\ StartPlan = <<2, 1>>
    /\ plan = <<2>>
    /\ \E t \in Threads : threads[t].exc = "ValueError"

====
